---- MODULE Spec2Model ----
(***************************************************************************)
(* Verification model of drifters: the working-copy lock                   *)
(* (src/git/ephemeral.rs), the consensus merger                            *)
(* (src/merge/intelligent.rs), the section codec                           *)
(* (src/parser/sections.rs), the fileset resolver                          *)
(* (src/config/fileset.rs) and the rename-machine command                  *)
(* (src/cli/rename_machine.rs).                                            *)
(***************************************************************************)
EXTENDS Integers, Sequences, FiniteSets, TLC

VARIABLES
    pc,           \* per process: position inside EphemeralRepoGuard / acquire_lock
    lock,         \* the lock file tmp-repo.lock: presence, PID written, age in seconds
    waited,       \* per process: start.elapsed() of acquire_lock, in seconds
    repo_exists,  \* whether the shared checkout directory tmp-repo exists
    repo_behind,  \* whether the remote holds commits the checkout lacks
    config_exists,    \* whether the local config file has been saved
    init_pc,      \* position of the init command
    outcome,      \* per process: how its command ended
    release_failed,   \* per process: whether remove_file failed in its release_lock
    all_versions,     \* the version map: machine id -> MachineVersion or Absent
    current_machine_id,
    merged,       \* what the last intelligent_merge call returned
    codec_op,     \* the section codec call in progress: idle, extract, merge, roundtrip
    local_content,    \* the local file's content (a string, as its bytes)
    synced_content,   \* the incoming content handed to merge_synced_content
    codec_result, \* what the call returned
    fileset_op,   \* the resolve_fileset call in progress: idle, resolve
    app_config,   \* the AppConfig handed to resolve_fileset
    machine_id,   \* its machine_id argument
    os,           \* its os argument
    files,        \* what the call returned
    rename_pc,    \* position of the rename-machine command
    old_id,       \* its old_id argument
    new_id,       \* its new_id argument
    config_machine_id,    \* machine_id in the local config file
    registry,     \* the machine ids in the checkout's registry, as loaded and edited
    remote_registry,  \* the machine ids in the registry on the remote
    rename_result \* how the rename-machine command ended

lockvars == <<pc, lock, waited, repo_exists, outcome, repo_behind, release_failed>>

initvars == <<config_exists, init_pc>>

mergevars == <<all_versions, current_machine_id, merged>>

codecvars == <<codec_op, local_content, synced_content, codec_result>>

filesetvars == <<fileset_op, app_config, machine_id, os, files>>

renamevars == <<rename_pc, old_id, new_id, config_machine_id, registry,
                remote_registry, rename_result>>

vars == <<pc, lock, waited, repo_exists, outcome, repo_behind, release_failed,
          config_exists, init_pc,
          all_versions, current_machine_id, merged,
          codec_op, local_content, synced_content, codec_result,
          fileset_op, app_config, machine_id, os, files,
          rename_pc, old_id, new_id, config_machine_id, registry,
          remote_registry, rename_result>>

(***************************************************************************)
(* Bounds and program constants                                            *)
(***************************************************************************)
NumProcs == 2

LOCK_TIMEOUT_SECS == 30

LOCK_STALE_SECS == 300

Procs == 1..NumProcs

Min(a, b) == IF a <= b THEN a ELSE b

(***************************************************************************)
(* The lock file.  Its content is the creator's PID, its mtime is kept as  *)
(* an age; ages above LOCK_STALE_SECS are all alike to the code, so the    *)
(* age saturates at LOCK_STALE_SECS + 1.                                   *)
(***************************************************************************)
NoLock == [present |-> FALSE, pid |-> 0, age |-> 0]

NewLock(p) == [present |-> TRUE, pid |-> p, age |-> 0]

\* the passages of time the model distinguishes.  The code compares the age
\* with LOCK_STALE_SECS and the wait with LOCK_TIMEOUT_SECS only: a passage of
\* LOCK_STALE_SECS takes a new lock file to the largest age that is not stale
\* and every waiting process past its timeout, one second more makes it stale.
TickSet == {LOCK_STALE_SECS, LOCK_STALE_SECS + 1}

\* is_stale_lock with the comparison weakened to "never stale"
is_stale_lock_never(l) == FALSE

\* is_stale_lock: metadata() fails on a missing file and the answer is false
is_stale_lock(l) == l.present /\ l.age > LOCK_STALE_SECS

\* positions at which the process has created the lock file and not yet
\* run release_lock: the Held state of the spec
HeldPcs == {"setup", "held", "cleanup", "release"}

AcquirePcs == {"try", "stale_check", "remove_stale", "retry"}

Held(p) == pc[p] \in HeldPcs

\* the merger is not in use
MergeIdle ==
    /\ all_versions = <<>>
    /\ current_machine_id = 0
    /\ merged = [called |-> FALSE, ok |-> FALSE, val |-> <<>>]

\* no codec call is in progress
CodecInit ==
    /\ codec_op = "idle"
    /\ local_content = <<>>
    /\ synced_content = <<>>
    /\ codec_result = [ok |-> TRUE, some |-> FALSE, val |-> <<>>]

\* the AppConfig of an app without any pattern; its machines map holds an
\* override for the machine "m1" and none for any other machine
EmptyConfig ==
    [include |-> <<>>, exclude |-> <<>>,
     include_macos |-> <<>>, exclude_macos |-> <<>>,
     include_linux |-> <<>>, exclude_linux |-> <<>>,
     include_windows |-> <<>>, exclude_windows |-> <<>>,
     machines |-> [m \in {"m1"} |-> [include |-> <<>>, exclude |-> <<>>]]]

\* no resolve_fileset call is in progress
FilesetIdle ==
    /\ fileset_op = "idle"
    /\ app_config = EmptyConfig
    /\ machine_id = "m1"
    /\ os = "macos"
    /\ files = [ok |-> TRUE, val |-> <<>>]

\* no rename-machine command runs; the machine "a" is registered
RenameIdle ==
    /\ rename_pc = "idle"
    /\ old_id = <<>>
    /\ new_id = <<>>
    /\ config_machine_id = <<97>>
    /\ registry = {}
    /\ remote_registry = {<<97>>}
    /\ rename_result = "none"

LockInit ==
    /\ pc = [p \in Procs |-> "idle"]
    /\ lock = NoLock
    /\ waited = [p \in Procs |-> 0]
    /\ repo_exists = FALSE
    /\ outcome = [p \in Procs |-> "none"]
    /\ release_failed = [p \in Procs |-> FALSE]
    /\ repo_behind = FALSE
    /\ config_exists = TRUE
    /\ init_pc = "done"

\* a command starts as a new process in slot p: LocalConfig::load()?, then
\* EphemeralRepoGuard::new calls acquire_lock, which records
\* start = Instant::now()
Start(p) ==
    /\ config_exists
    /\ pc[p] \in {"idle", "done", "crashed"}
    /\ pc' = [pc EXCEPT ![p] = "try"]
    /\ waited' = [waited EXCEPT ![p] = 0]
    /\ outcome' = [outcome EXCEPT ![p] = "none"]
    /\ release_failed' = [release_failed EXCEPT ![p] = FALSE]
    /\ UNCHANGED <<lock, repo_exists, repo_behind>>
    /\ UNCHANGED <<initvars, mergevars, codecvars, filesetvars, renamevars>>

\* acquire_lock without the timeout check: sleep and try again, for ever
FailedTry_no_timeout(p) ==
    /\ pc' = [pc EXCEPT ![p] = "try"]
    /\ UNCHANGED <<outcome, waited>>

\* acquire_lock after try_acquire_lock returned false: the timeout error once
\* start.elapsed() >= LOCK_TIMEOUT_SECS, else sleep and try again.  waited is
\* a local of acquire_lock: it is 0 whenever the process is outside the loop.
FailedTry(p) ==
    IF waited[p] >= LOCK_TIMEOUT_SECS
    THEN /\ pc' = [pc EXCEPT ![p] = "done"]
         /\ outcome' = [outcome EXCEPT ![p] = "timeout"]
         /\ waited' = [waited EXCEPT ![p] = 0]
    ELSE /\ pc' = [pc EXCEPT ![p] = "try"]
         /\ UNCHANGED <<outcome, waited>>

\* try_acquire_lock, first create_new(true).open(path)
TryCreate(p) ==
    /\ pc[p] = "try"
    /\ IF lock.present
       THEN /\ pc' = [pc EXCEPT ![p] = "stale_check"]
            /\ UNCHANGED <<lock, waited>>
       ELSE /\ lock' = NewLock(p)
            /\ pc' = [pc EXCEPT ![p] = "setup"]
            /\ waited' = [waited EXCEPT ![p] = 0]
    /\ UNCHANGED <<repo_exists, repo_behind, outcome>>
    /\ UNCHANGED release_failed
    /\ UNCHANGED <<initvars, mergevars, codecvars, filesetvars, renamevars>>

\* try_acquire_lock, AlreadyExists arm: if is_stale_lock(path)
StaleCheck(p) ==
    /\ pc[p] = "stale_check"
    /\ IF is_stale_lock(lock)
       THEN /\ pc' = [pc EXCEPT ![p] = "remove_stale"]
            /\ UNCHANGED <<outcome, waited>>
       ELSE FailedTry(p)
    /\ UNCHANGED <<lock, repo_exists, repo_behind>>
    /\ UNCHANGED release_failed
    /\ UNCHANGED <<initvars, mergevars, codecvars, filesetvars, renamevars>>

\* let _ = std::fs::remove_file(path): removes whatever file is there now
RemoveStale(p) ==
    /\ pc[p] = "remove_stale"
    /\ lock' = NoLock
    /\ pc' = [pc EXCEPT ![p] = "retry"]
    /\ UNCHANGED <<waited, repo_exists, repo_behind, outcome>>
    /\ UNCHANGED release_failed
    /\ UNCHANGED <<initvars, mergevars, codecvars, filesetvars, renamevars>>

\* the second create_new: "try once more"
RetryCreate(p) ==
    /\ pc[p] = "retry"
    /\ IF lock.present
       THEN /\ FailedTry(p)
            /\ UNCHANGED lock
       ELSE /\ lock' = NewLock(p)
            /\ pc' = [pc EXCEPT ![p] = "setup"]
            /\ waited' = [waited EXCEPT ![p] = 0]
            /\ UNCHANGED outcome
    /\ UNCHANGED <<repo_exists, repo_behind>>
    /\ UNCHANGED release_failed
    /\ UNCHANGED <<initvars, mergevars, codecvars, filesetvars, renamevars>>

\* what setup_ephemeral_repo leaves in the checkout: clone_repo gives a
\* checkout of the remote as it is now; pull_latest runs git pull --rebase,
\* and when that fails it logs a warning and returns Ok all the same, the
\* checkout staying as it was
setup_ephemeral_repo ==
    IF repo_exists THEN repo_behind' \in {FALSE, repo_behind} ELSE repo_behind' = FALSE

\* EphemeralRepoGuard::new with the Err arm returning without release_lock
Setup_no_release(p) ==
    /\ pc[p] = "setup"
    /\ \/ /\ repo_exists' = TRUE
          /\ setup_ephemeral_repo
          /\ pc' = [pc EXCEPT ![p] = "held"]
          /\ UNCHANGED outcome
       \/ /\ ~repo_exists
          /\ outcome' = [outcome EXCEPT ![p] = "setup_err"]
          /\ pc' = [pc EXCEPT ![p] = "done"]
          /\ UNCHANGED <<repo_exists, repo_behind>>
    /\ UNCHANGED <<lock, waited>>
    /\ UNCHANGED release_failed
    /\ UNCHANGED <<initvars, mergevars, codecvars, filesetvars, renamevars>>

\* EphemeralRepoGuard::new after acquire_lock: setup_ephemeral_repo pulls if
\* tmp-repo exists (pull_latest only warns when git pull fails) and clones
\* otherwise; a failed clone is returned after release_lock
Setup(p) ==
    /\ pc[p] = "setup"
    /\ \/ /\ repo_exists' = TRUE
          /\ setup_ephemeral_repo
          /\ pc' = [pc EXCEPT ![p] = "held"]
          /\ UNCHANGED outcome
       \/ /\ ~repo_exists
          /\ outcome' = [outcome EXCEPT ![p] = "setup_err"]
          /\ pc' = [pc EXCEPT ![p] = "release"]
          /\ UNCHANGED <<repo_exists, repo_behind>>
    /\ UNCHANGED <<lock, waited>>
    /\ UNCHANGED release_failed
    /\ UNCHANGED <<initvars, mergevars, codecvars, filesetvars, renamevars>>

\* the command body runs with the guard alive and returns Ok or Err
Command(p) ==
    /\ pc[p] = "held"
    /\ \E r \in {"ok", "err"} : outcome' = [outcome EXCEPT ![p] = r]
    /\ pc' = [pc EXCEPT ![p] = "cleanup"]
    /\ UNCHANGED <<lock, waited, repo_exists, repo_behind>>
    /\ UNCHANGED release_failed
    /\ UNCHANGED <<initvars, mergevars, codecvars, filesetvars, renamevars>>

\* Drop going on to release_lock without cleanup_ephemeral_repo
Cleanup_skipped(p) ==
    /\ pc[p] = "cleanup"
    /\ pc' = [pc EXCEPT ![p] = "release"]
    /\ UNCHANGED <<lock, waited, outcome, repo_exists, repo_behind>>
    /\ UNCHANGED release_failed
    /\ UNCHANGED <<initvars, mergevars, codecvars, filesetvars, renamevars>>

\* Drop: cleanup_ephemeral_repo removes tmp-repo if it exists
Cleanup(p) ==
    /\ pc[p] = "cleanup"
    /\ repo_exists' = FALSE
    /\ repo_behind' = FALSE
    /\ pc' = [pc EXCEPT ![p] = "release"]
    /\ UNCHANGED <<lock, waited, outcome>>
    /\ UNCHANGED release_failed
    /\ UNCHANGED <<initvars, mergevars, codecvars, filesetvars, renamevars>>

\* release_lock with the failure of remove_file returned as the command's
\* error
Release_propagating(p) ==
    /\ pc[p] = "release"
    /\ lock' = NoLock
    /\ release_failed' = [release_failed EXCEPT ![p] = ~lock.present]
    /\ pc' = [pc EXCEPT ![p] = "done"]
    /\ outcome' = IF lock.present THEN outcome ELSE [outcome EXCEPT ![p] = "err"]
    /\ UNCHANGED <<waited, repo_exists, repo_behind>>
    /\ UNCHANGED <<initvars, mergevars, codecvars, filesetvars, renamevars>>

\* release_lock: remove_file(path); it fails when there is no such file, and
\* the failure is only logged
Release(p) ==
    /\ pc[p] = "release"
    /\ lock' = NoLock
    /\ release_failed' = [release_failed EXCEPT ![p] = ~lock.present]
    /\ pc' = [pc EXCEPT ![p] = "done"]
    /\ UNCHANGED <<waited, repo_exists, repo_behind, outcome>>
    /\ UNCHANGED <<initvars, mergevars, codecvars, filesetvars, renamevars>>

\* the process is killed: nothing is cleaned up
Crash(p) ==
    /\ pc[p] \in AcquirePcs \cup HeldPcs
    /\ pc' = [pc EXCEPT ![p] = "crashed"]
    /\ waited' = [waited EXCEPT ![p] = 0]
    /\ outcome' = [outcome EXCEPT ![p] = "none"]
    /\ UNCHANGED <<lock, repo_exists, repo_behind>>
    /\ UNCHANGED release_failed
    /\ UNCHANGED <<initvars, mergevars, codecvars, filesetvars, renamevars>>

\* time passes: the lock file ages and the waiting processes' clocks run
Tick ==
    /\ \E d \in TickSet :
          /\ lock' = IF lock.present
                     THEN [lock EXCEPT !.age = Min(lock.age + d, LOCK_STALE_SECS + 1)]
                     ELSE lock
          /\ waited' = [p \in Procs |->
                          IF pc[p] \in AcquirePcs
                          THEN Min(waited[p] + d, LOCK_TIMEOUT_SECS)
                          ELSE waited[p]]
    /\ UNCHANGED <<pc, repo_exists, repo_behind, outcome>>
    /\ UNCHANGED release_failed
    /\ UNCHANGED <<initvars, mergevars, codecvars, filesetvars, renamevars>>

\* the steps a running process takes by itself
Advance(p) ==
    \/ TryCreate(p)
    \/ StaleCheck(p)
    \/ RemoveStale(p)
    \/ RetryCreate(p)
    \/ Setup(p)
    \/ Command(p)
    \/ Cleanup(p)
    \/ Release(p)

Next ==
    \/ \E p \in Procs : Start(p)
    \/ \E p \in Procs : Advance(p)
    \/ \E p \in Procs : Crash(p)
    \/ Tick

Init == LockInit /\ MergeIdle /\ CodecInit /\ FilesetIdle /\ RenameIdle

Spec == Init /\ [][Next]_vars

\* every running process is scheduled, and its command body returns
FairSpec == Spec /\ \A p \in Procs : WF_vars(Advance(p))

(***************************************************************************)
(* The commands that use tmp-repo without EphemeralRepoGuard, and the      *)
(* other machines that push to the same remote.                            *)
(***************************************************************************)
\* init, up to local_config.save(): refused when the config loads; tmp-repo
\* is kept if it exists, else cloned, or initialised empty when the clone
\* fails.  No lock file is created or looked at.
InitBegin ==
    /\ init_pc = "idle"
    /\ ~config_exists
    /\ repo_exists' = TRUE
    /\ repo_behind' = IF repo_exists THEN repo_behind ELSE FALSE
    /\ config_exists' = TRUE
    /\ init_pc' = "saved"
    /\ UNCHANGED <<pc, lock, waited, outcome, release_failed>>
    /\ UNCHANGED <<mergevars, codecvars, filesetvars, renamevars>>

\* init, from registry.save to the end: commit_and_push in tmp-repo, then
\* TempDirGuard's Drop removes tmp-repo
InitFinish ==
    /\ init_pc = "saved"
    /\ repo_exists' = FALSE
    /\ repo_behind' = FALSE
    /\ init_pc' = "done"
    /\ UNCHANGED config_exists
    /\ UNCHANGED <<pc, lock, waited, outcome, release_failed>>
    /\ UNCHANGED <<mergevars, codecvars, filesetvars, renamevars>>

\* unlock, confirmed by the user: remove_file(lock_path), then
\* remove_dir_all(tmp-repo) if it exists; without a lock file it does nothing
unlock ==
    /\ lock.present
    /\ lock' = NoLock
    /\ repo_exists' = FALSE
    /\ repo_behind' = FALSE
    /\ UNCHANGED <<pc, waited, outcome>>
    /\ UNCHANGED release_failed
    /\ UNCHANGED <<initvars, mergevars, codecvars, filesetvars, renamevars>>

\* another machine's command pushes a commit to the remote: an existing
\* checkout that was up to date is now behind
RemotePush ==
    /\ repo_exists /\ ~repo_behind
    /\ repo_behind' = TRUE
    /\ UNCHANGED <<pc, lock, waited, repo_exists, outcome>>
    /\ UNCHANGED release_failed
    /\ UNCHANGED <<initvars, mergevars, codecvars, filesetvars, renamevars>>

StoreNext ==
    \/ Next
    \/ InitBegin
    \/ InitFinish
    \/ unlock
    \/ RemotePush

\* a machine on which init has not run yet
StoreInit ==
    /\ pc = [p \in Procs |-> "idle"]
    /\ lock = NoLock
    /\ waited = [p \in Procs |-> 0]
    /\ repo_exists = FALSE
    /\ outcome = [p \in Procs |-> "none"]
    /\ release_failed = [p \in Procs |-> FALSE]
    /\ repo_behind = FALSE
    /\ config_exists = FALSE
    /\ init_pc = "idle"
    /\ MergeIdle
    /\ CodecInit
    /\ FilesetIdle
    /\ RenameIdle

StoreSpec == StoreInit /\ [][StoreNext]_vars

(***************************************************************************)
(* The consensus merger, src/merge/intelligent.rs.  A content is a string, *)
(* here the sequence of its bytes; committed_at is an Option<u64>, here    *)
(* <<>> for None and <<t>> for Some(t).  The HashMap is a function from    *)
(* the machine ids it holds; its iteration order is any order of its keys. *)
(***************************************************************************)
NumMachines == 3

MachineIds == 1..NumMachines

\* "a", "ab", "b"
Contents == {<<97>>, <<97, 98>>, <<98>>}

\* None, Some(0), Some(1)
CommitTimes == {<<>>, <<0>>, <<1>>}

MachineVersion == [content : Contents, committed_at : CommitTimes]

NoResult == [called |-> FALSE, ok |-> FALSE, val |-> <<>>]

Ok(c) == [called |-> TRUE, ok |-> TRUE, val |-> c]

\* Ok(String::new()) in place of the error
Ok_empty == [called |-> TRUE, ok |-> TRUE, val |-> <<>>]

\* Err(DriftersError::Config("No versions available to merge"))
Err == [called |-> TRUE, ok |-> FALSE, val |-> <<>>]

\* the orders in which a HashMap with key set S may be iterated
RECURSIVE IterationOrders(_)
IterationOrders(S) ==
    IF S = {} THEN {<<>>}
    ELSE UNION {{<<k>> \o o : o \in IterationOrders(S \ {k})} : k \in S}

\* all_versions.iter() in the order o: the (id, version) pairs
iter(versions, o) ==
    [i \in 1..Len(o) |-> [id |-> o[i], content |-> versions[o[i]].content,
                          committed_at |-> versions[o[i]].committed_at]]

\* str's Ord: byte-wise lexicographic, a proper prefix is smaller
RECURSIVE str_less(_, _)
str_less(a, b) ==
    IF b = <<>> THEN FALSE
    ELSE IF a = <<>> THEN TRUE
    ELSE IF a[1] # b[1] THEN a[1] < b[1]
    ELSE str_less(Tail(a), Tail(b))

\* committed_at.unwrap_or(u64::MAX) in place of unwrap_or(0), the largest
\* timestamp of the model standing for u64::MAX
effective_ts_none_newest(v) == IF v.committed_at = <<>> THEN 2 ELSE v.committed_at[1]

\* committed_at.unwrap_or(0)
effective_ts(v) == IF v.committed_at = <<>> THEN 0 ELSE v.committed_at[1]

\* .map(|v| v.committed_at.unwrap_or(0)).max().unwrap_or(0)
max_ts(entries) ==
    LET ts == {effective_ts(entries[i]) : i \in 1..Len(entries)}
    IN  IF ts = {} THEN 0 ELSE CHOOSE t \in ts : \A u \in ts : u <= t

\* the entries tied at max_ts, in iteration order
winners_of(entries) ==
    LET m == max_ts(entries)
    IN  SelectSeq(entries, LAMBDA e : effective_ts(e) = m)

\* winners.sort_by_key(|(_, content)| *content): a stable sort
RECURSIVE sort_by_content(_)
sort_by_content(w) ==
    IF w = <<>> THEN <<>>
    ELSE LET rest == sort_by_content(SubSeq(w, 1, Len(w) - 1))
             e == w[Len(w)]
             \* e goes after every element that is not greater than it
             k == Cardinality({i \in 1..Len(rest) : ~str_less(e.content, rest[i].content)})
         IN  SubSeq(rest, 1, k) \o <<e>> \o SubSeq(rest, k + 1, Len(rest))

\* tiebreak 2 without the sort: the first winner in iteration order
lex_tiebreak_unsorted(w) == w[1].content

\* tiebreak 2: sort, then winners[0].1
lex_tiebreak(w) == sort_by_content(w)[1].content

\* tiebreak 1 never applies
self_tiebreak_off(w, cur) == {}

\* tiebreak 1: winners.iter().find(|(id, _)| *id == current_machine_id),
\* as the set of positions found (at most one: ids are the map's keys)
self_tiebreak(w, cur) ==
    {i \in 1..Len(w) : w[i].id = cur /\ \A j \in 1..(i - 1) : w[j].id # cur}

\* the winners are the entries at the smallest timestamp
pick_winners_oldest(entries) ==
    LET ts == {effective_ts(entries[i]) : i \in 1..Len(entries)}
        m == CHOOSE t \in ts : \A u \in ts : t <= u
    IN  SelectSeq(entries, LAMBDA e : effective_ts(e) = m)

pick_winners(entries) == winners_of(entries)

\* an empty string in place of the first value's content
first_content_empty(entries) == <<>>

\* all_versions.values().next().unwrap().content
first_content(entries) == entries[1].content

intelligent_merge(entries, cur) ==
    IF entries = <<>> THEN Err
    ELSE IF Len(entries) = 1 THEN Ok(first_content(entries))
    ELSE IF \A i \in 1..Len(entries) : entries[i].content = first_content(entries)
         THEN Ok(first_content(entries))
    ELSE LET w == pick_winners(entries)
             self == self_tiebreak(w, cur)
         IN  IF Len(w) = 1 THEN Ok(w[1].content)
             ELSE IF self # {} THEN Ok(w[CHOOSE i \in self : TRUE].content)
             ELSE Ok(lex_tiebreak(w))

MergeInit ==
    /\ all_versions = <<>>
    /\ current_machine_id \in MachineIds
    /\ merged = NoResult

\* collect_machine_versions / pull: versions.insert(machine_id, version), once
\* for each machine directory that holds the file.  The map does not keep the
\* order of the inserts, so they are made in the order of the ids.
InsertVersion ==
    /\ \E id \in MachineIds, v \in MachineVersion :
          /\ \A k \in DOMAIN all_versions : k < id
          /\ all_versions' = [k \in DOMAIN all_versions \cup {id} |->
                                  IF k = id THEN v ELSE all_versions[k]]
    /\ merged' = NoResult
    /\ UNCHANGED current_machine_id
    /\ UNCHANGED <<lockvars, initvars, codecvars, filesetvars, renamevars>>

\* a call of intelligent_merge; the map is iterated in an order of its own
Merge ==
    /\ ~merged.called
    /\ \E o \in IterationOrders(DOMAIN all_versions) :
          merged' = intelligent_merge(iter(all_versions, o), current_machine_id)
    /\ UNCHANGED <<all_versions, current_machine_id>>
    /\ UNCHANGED <<lockvars, initvars, codecvars, filesetvars, renamevars>>

MergeNext == InsertVersion \/ Merge

MergeSpecInit == LockInit /\ MergeInit /\ CodecInit /\ FilesetIdle /\ RenameIdle

MergeSpec == MergeSpecInit /\ [][MergeNext]_vars

(***************************************************************************)
(* The section codec, src/parser/sections.rs.  A content is a string, here *)
(* the sequence of its bytes.  The tag tokens "<comment> drifters::        *)
(* exclude::start" and "...::stop" are written "#s" and "#t": like the     *)
(* real ones, neither is a prefix of the other.                            *)
(***************************************************************************)
MaxLines == 5

MaxSyncedLines == 5

\* the local and the incoming content of one merge have at most this many
\* lines together
MaxTotalLines == 8

NL == 10

SP == 32

exclude_start == <<35, 115>>

exclude_stop == <<35, 116>>

\* the lines the model's local files are written with: "#s", "#t", "x"
LocalLines == {exclude_start, exclude_stop, <<120>>}

\* and, for the files handed to extract_syncable_content, an indented " #s"
\* and a line "x#s" with the tag token after other text
ExtractLines == LocalLines \cup {<<SP>> \o exclude_start, <<120>> \o exclude_start}

\* the lines of the incoming contents: "#s", "#t", "y"
SyncedLines == {exclude_start, exclude_stop, <<121>>}

\* str::lines(): split at "\n"; a last line without "\n" counts when it is
\* not empty
RECURSIVE lines(_)
lines(s) ==
    IF s = <<>> THEN <<>>
    ELSE LET nls == {i \in 1..Len(s) : s[i] = NL}
         IN  IF nls = {} THEN <<s>>
             ELSE LET i == CHOOSE k \in nls : \A m \in nls : k <= m
                  IN  <<SubSeq(s, 1, i - 1)>> \o lines(SubSeq(s, i + 1, Len(s)))

\* str::trim(): without leading and trailing whitespace
RECURSIVE trim(_)
trim(l) ==
    IF l = <<>> THEN l
    ELSE IF l[1] = SP THEN trim(Tail(l))
    ELSE IF l[Len(l)] = SP THEN trim(SubSeq(l, 1, Len(l) - 1))
    ELSE l

starts_with(l, prefix) ==
    Len(l) >= Len(prefix) /\ SubSeq(l, 1, Len(prefix)) = prefix

\* line.starts_with(&exclude_start), without the trim
is_start_tag_untrimmed(line) == starts_with(line, exclude_start)

\* trimmed.starts_with(&exclude_start)
is_start_tag(line) == starts_with(trim(line), exclude_start)

\* trimmed.starts_with(&exclude_stop)
is_stop_tag(line) == starts_with(trim(line), exclude_stop)

\* result.push_str(line); result.push('\n')
push_line(result, line) == result \o line \o <<NL>>

CodecErr == [ok |-> FALSE, some |-> FALSE, val |-> <<>>]

\* the loop of extract_syncable_content pushing every line, bodies included
RECURSIVE extract_loop_keep_bodies(_, _, _, _, _)
extract_loop_keep_bodies(ls, i, result, in_exclude_block, found_any_tags) ==
    IF i > Len(ls)
    THEN [result |-> result, in_exclude_block |-> in_exclude_block,
          found_any_tags |-> found_any_tags]
    ELSE extract_loop_keep_bodies(ls, i + 1, push_line(result, ls[i]),
                                  IF is_start_tag(ls[i]) THEN TRUE
                                  ELSE IF is_stop_tag(ls[i]) THEN FALSE
                                  ELSE in_exclude_block,
                                  found_any_tags \/ is_start_tag(ls[i]))

\* the loop of extract_syncable_content over ls[i..]
RECURSIVE extract_loop(_, _, _, _, _)
extract_loop(ls, i, result, in_exclude_block, found_any_tags) ==
    IF i > Len(ls)
    THEN [result |-> result, in_exclude_block |-> in_exclude_block,
          found_any_tags |-> found_any_tags]
    ELSE IF is_start_tag(ls[i])
         THEN extract_loop(ls, i + 1, push_line(result, ls[i]), TRUE, TRUE)
    ELSE IF is_stop_tag(ls[i])
         THEN extract_loop(ls, i + 1, push_line(result, ls[i]), FALSE, found_any_tags)
    ELSE IF ~in_exclude_block
         THEN extract_loop(ls, i + 1, push_line(result, ls[i]), in_exclude_block,
                           found_any_tags)
    ELSE extract_loop(ls, i + 1, result, in_exclude_block, found_any_tags)

\* the end of extract_syncable_content with the unclosed-block check left out
extract_finish_unchecked(st) ==
    IF st.found_any_tags THEN [ok |-> TRUE, some |-> TRUE, val |-> st.result]
    ELSE [ok |-> TRUE, some |-> FALSE, val |-> <<>>]

\* the end of extract_syncable_content: Err on an unclosed block, else
\* Some(result) if a start tag was seen, else None
extract_finish(st) ==
    IF st.in_exclude_block THEN CodecErr
    ELSE IF st.found_any_tags THEN [ok |-> TRUE, some |-> TRUE, val |-> st.result]
    ELSE [ok |-> TRUE, some |-> FALSE, val |-> <<>>]

extract_syncable_content(content) ==
    extract_finish(extract_loop(lines(content), 1, <<>>, FALSE, FALSE))

\* the loop of extract_exclude_sections over ls[i..]
RECURSIVE sections_loop(_, _, _, _, _)
sections_loop(ls, i, sections, current_section, in_section) ==
    IF i > Len(ls)
    THEN [sections |-> sections, in_section |-> in_section]
    ELSE IF is_start_tag(ls[i])
         THEN sections_loop(ls, i + 1, sections, push_line(<<>>, ls[i]), TRUE)
    ELSE IF is_stop_tag(ls[i])
         THEN sections_loop(ls, i + 1,
                            Append(sections, push_line(current_section, ls[i])),
                            current_section, FALSE)
    ELSE IF in_section
         THEN sections_loop(ls, i + 1, sections, push_line(current_section, ls[i]),
                            in_section)
    ELSE sections_loop(ls, i + 1, sections, current_section, in_section)

\* extract_exclude_sections: Err on a dangling start tag, else the sections
extract_exclude_sections(content) ==
    LET st == sections_loop(lines(content), 1, <<>>, <<>>, FALSE)
    IN  IF st.in_section THEN [ok |-> FALSE, sections |-> <<>>]
        ELSE [ok |-> TRUE, sections |-> st.sections]

\* what the loop of merge_synced_content emits for a start tag line
\* when it always keeps the incoming line
emit_start_incoming(result, local_excludes, exclude_index, line) ==
    push_line(result, line)

\* what the loop of merge_synced_content emits for a start tag line:
\* the local section at exclude_index if there is one, else the line
emit_start(result, local_excludes, exclude_index, line) ==
    IF exclude_index + 1 <= Len(local_excludes)
    THEN result \o local_excludes[exclude_index + 1]
    ELSE push_line(result, line)

\* the loop of merge_synced_content over ls[i..]
RECURSIVE merge_loop(_, _, _, _, _, _)
merge_loop(ls, i, local_excludes, result, in_exclude_block, exclude_index) ==
    IF i > Len(ls) THEN result
    ELSE IF is_start_tag(ls[i])
         THEN merge_loop(ls, i + 1, local_excludes,
                         emit_start(result, local_excludes, exclude_index, ls[i]),
                         TRUE,
                         IF exclude_index + 1 <= Len(local_excludes)
                         THEN exclude_index + 1 ELSE exclude_index)
    ELSE IF is_stop_tag(ls[i])
         THEN IF exclude_index > 0 /\ exclude_index - 1 < Len(local_excludes)
              THEN merge_loop(ls, i + 1, local_excludes, result, FALSE, exclude_index)
              ELSE merge_loop(ls, i + 1, local_excludes, push_line(result, ls[i]),
                              FALSE, exclude_index)
    ELSE IF ~in_exclude_block
         THEN merge_loop(ls, i + 1, local_excludes, push_line(result, ls[i]),
                         in_exclude_block, exclude_index)
    ELSE merge_loop(ls, i + 1, local_excludes, result, in_exclude_block, exclude_index)

merge_synced_content(local, synced) ==
    LET local_excludes == extract_exclude_sections(local)
    IN  IF ~local_excludes.ok THEN CodecErr
        ELSE [ok |-> TRUE, some |-> TRUE,
              val |-> merge_loop(lines(synced), 1, local_excludes.sections,
                                 <<>>, FALSE, 0)]

\* the sequences of at most n lines taken from the set ls
RECURSIVE LineSeqs(_, _)
LineSeqs(ls, n) ==
    IF n = 0 THEN {<<>>}
    ELSE LET shorter == LineSeqs(ls, n - 1)
         IN  shorter \cup {Append(q, l) : q \in shorter, l \in ls}

\* the string with the lines q, each but the last ended by "\n", and the
\* last one too when nl
RECURSIVE join(_, _)
join(q, nl) ==
    IF q = <<>> THEN <<>>
    ELSE IF Len(q) = 1 THEN (IF nl THEN push_line(<<>>, q[1]) ELSE q[1])
    ELSE push_line(<<>>, q[1]) \o join(Tail(q), nl)

\* the local files merge_synced_content is given: it reads the local file
\* only through lines(), which gives the same lines with and without a
\* final "\n", so the files here end with "\n"; they are kept as their
\* sequences of lines and joined when the call is made
LocalContents == LineSeqs(LocalLines, MaxLines)

ExtractContents ==
    {join(q, nl) : q \in LineSeqs(ExtractLines, MaxLines), nl \in BOOLEAN}

\* the incoming contents of the model: what a machine pushed
SyncedContents == LineSeqs(SyncedLines, MaxSyncedLines)

\* extract_syncable_content(file), for files with and without a final "\n"
Extract ==
    /\ codec_op = "idle"
    /\ \E c \in ExtractContents :
          /\ local_content' = c
          /\ codec_result' = extract_syncable_content(c)
    /\ codec_op' = "extract"
    /\ UNCHANGED synced_content
    /\ UNCHANGED <<lockvars, initvars, mergevars, filesetvars, renamevars>>

\* pull: merge_synced_content(local file, merged content of the machines)
MergeSynced ==
    /\ codec_op = "idle"
    /\ \E l \in LocalContents, c \in SyncedContents :
          /\ Len(l) + Len(c) <= MaxTotalLines
          /\ local_content' = join(l, TRUE)
          /\ synced_content' = join(c, TRUE)
          /\ codec_result' = merge_synced_content(join(l, TRUE), join(c, TRUE))
    /\ codec_op' = "merge"
    /\ UNCHANGED <<lockvars, initvars, mergevars, filesetvars, renamevars>>

\* the content a machine extracted and pushed comes back to it unchanged:
\* merge_synced_content(local, extracted)
RoundTrip ==
    /\ codec_op = "extract"
    /\ codec_result.ok /\ codec_result.some
    /\ synced_content' = codec_result.val
    /\ codec_result' = merge_synced_content(local_content, codec_result.val)
    /\ codec_op' = "roundtrip"
    /\ UNCHANGED local_content
    /\ UNCHANGED <<lockvars, initvars, mergevars, filesetvars, renamevars>>

\* the call returns
CodecReturn ==
    /\ codec_op # "idle"
    /\ codec_op' = "idle"
    /\ local_content' = <<>>
    /\ synced_content' = <<>>
    /\ codec_result' = [ok |-> TRUE, some |-> FALSE, val |-> <<>>]
    /\ UNCHANGED <<lockvars, initvars, mergevars, filesetvars, renamevars>>

CodecNext == Extract \/ MergeSynced \/ RoundTrip \/ CodecReturn

CodecSpecInit == LockInit /\ MergeIdle /\ CodecInit /\ FilesetIdle /\ RenameIdle

CodecSpec == CodecSpecInit /\ [][CodecNext]_vars

(***************************************************************************)
(* Fileset resolver (src/config/fileset.rs)                                *)
(***************************************************************************)
\* an AppConfig of the model holds at most this many patterns, all its
\* include and exclude lists taken together
MaxPatterns == 3

\* the bytes '/', '*', '~' and '['
SLASH == 47

STAR == 42

TILDE == 126

LBRACKET == 91

\* dirs::home_dir(): Some("/h")
home_dir == <<SLASH, 104>>

\* the paths that exist on the machine: the directory "/h" and the files
\* "/h/a" and "/h/b"
Disk == {home_dir, home_dir \o <<SLASH, 97>>, home_dir \o <<SLASH, 98>>}

\* the include patterns of the model: "~/*", which matches both files after
\* the tilde expansion, "/h/c", which matches nothing, and "[", which is not
\* a valid glob pattern
IncludeGlobs == {<<TILDE, SLASH, STAR>>, <<SLASH, 104, SLASH, 99>>, <<LBRACKET>>}

\* the exclude patterns of the model: "~/a", which matches "/h/a" as a glob
\* after the tilde expansion and is contained in no path, and "a", which is
\* contained in "/h/a" and matches no path as a glob
ExcludeGlobs == {<<TILDE, SLASH, 97>>, <<97>>}

\* the os argument: the three values resolve_fileset knows and another one
OsValues == {"macos", "linux", "windows", "freebsd"}

\* the machine_id argument: a machine with an override and one without
MachineIdValues == {"m1", "m2"}

\* the pattern lists of an AppConfig, the two of the override of "m1" among
\* them, each with the patterns the model writes into it
PatternLists ==
    ({"include", "include_macos", "include_linux", "include_windows",
      "machine_include"} \X IncludeGlobs)
    \cup
    ({"exclude", "exclude_macos", "exclude_linux", "exclude_windows",
      "machine_exclude"} \X ExcludeGlobs)

\* the config c with the pattern g appended to its list f
AddPattern(c, f, g) ==
    IF f = "machine_include" THEN [c EXCEPT !.machines["m1"].include = Append(@, g)]
    ELSE IF f = "machine_exclude" THEN [c EXCEPT !.machines["m1"].exclude = Append(@, g)]
    ELSE [c EXCEPT ![f] = Append(@, g)]

RECURSIVE ConfigsUpTo(_)
ConfigsUpTo(n) ==
    IF n = 0 THEN {EmptyConfig}
    ELSE LET fewer == ConfigsUpTo(n - 1)
         IN  fewer \cup {AddPattern(c, l[1], l[2]) : c \in fewer, l \in PatternLists}

\* the AppConfigs resolve_fileset is called with
AppConfigs == ConfigsUpTo(MaxPatterns)

\* expand_tilde: "~/rest" becomes home.join(rest); Path::join puts a
\* separator between the two and gives rest alone when rest is absolute
expand_tilde(path) ==
    IF starts_with(path, <<TILDE, SLASH>>)
    THEN LET rest == SubSeq(path, 3, Len(path))
         IN  IF rest # <<>> /\ rest[1] = SLASH THEN rest
             ELSE home_dir \o <<SLASH>> \o rest
    ELSE path

\* glob::Pattern::new(pattern) is Ok: a '[' that no ']' closes is a
\* PatternError, and no pattern of the model holds a ']'
Pattern_new(pattern) == \A i \in 1..Len(pattern) : pattern[i] # LBRACKET

\* Pattern::matches_with: a '*' stands for any run of characters, without a
\* separator when require_literal_separator is set; any other character of
\* the model's patterns stands for itself
RECURSIVE matches_with(_, _, _)
matches_with(pattern, str, require_literal_separator) ==
    IF pattern = <<>> THEN str = <<>>
    ELSE IF pattern[1] = STAR
    THEN \E k \in 0..Len(str) :
            /\ require_literal_separator =>
                  \A i \in 1..k : str[i] # SLASH
            /\ matches_with(Tail(pattern), SubSeq(str, k + 1, Len(str)),
                            require_literal_separator)
    ELSE /\ str # <<>>
         /\ str[1] = pattern[1]
         /\ matches_with(Tail(pattern), Tail(str), require_literal_separator)

\* glob_pattern.matches_path(path): MatchOptions::new(), in which a '*'
\* matches separators too
matches_path(pattern, path) == matches_with(pattern, path, FALSE)

\* PathBuf's Ord, which for the paths of the model is the order of their
\* bytes
path_less(a, b) == str_less(a, b)

\* the paths of S in ascending order
RECURSIVE ascending(_)
ascending(S) ==
    IF S = {} THEN <<>>
    ELSE LET least == CHOOSE a \in S : \A b \in S : a = b \/ path_less(a, b)
         IN  <<least>> \o ascending(S \ {least})

\* glob::glob(pattern): an error for an invalid pattern, else the existing
\* paths that match it component by component, in alphabetical order
glob(pattern) ==
    [ok |-> Pattern_new(pattern),
     paths |-> ascending({path \in Disk : matches_with(pattern, path, TRUE)})]

\* p.contains(pattern)
str_contains(p, pattern) ==
    \E i \in 0..(Len(p) - Len(pattern)) :
        SubSeq(p, i + 1, i + Len(pattern)) = pattern

\* matches_any_pattern without the simple path match
matches_any_pattern_glob_only(path, patterns) ==
    \E i \in 1..Len(patterns) :
        LET expanded_pattern == expand_tilde(patterns[i])
        IN  Pattern_new(expanded_pattern) /\ matches_path(expanded_pattern, path)

\* matches_any_pattern: for some pattern the glob match of the expanded
\* pattern or the containment of the pattern as written succeeds
matches_any_pattern(path, patterns) ==
    \E i \in 1..Len(patterns) :
        LET expanded_pattern == expand_tilde(patterns[i])
        IN  \/ Pattern_new(expanded_pattern) /\ matches_path(expanded_pattern, path)
            \/ str_contains(path, patterns[i])

\* match os: the include list of the OS tier
os_include(cfg, o) ==
    CASE o = "macos" -> cfg.include_macos
      [] o = "linux" -> cfg.include_linux
      [] o = "windows" -> cfg.include_windows
      [] OTHER -> <<>>

\* match os: the exclude list of the OS tier
os_exclude(cfg, o) ==
    CASE o = "macos" -> cfg.exclude_macos
      [] o = "linux" -> cfg.exclude_linux
      [] o = "windows" -> cfg.exclude_windows
      [] OTHER -> <<>>

\* include_patterns after steps 1 to 3
include_patterns(cfg, mid, o) ==
    cfg.include \o os_include(cfg, o)
        \o (IF mid \in DOMAIN cfg.machines THEN cfg.machines[mid].include ELSE <<>>)

\* exclude_patterns without step 3, the machine override
exclude_patterns_no_machine(cfg, mid, o) == cfg.exclude \o os_exclude(cfg, o)

\* exclude_patterns after steps 1 to 3
exclude_patterns(cfg, mid, o) ==
    cfg.exclude \o os_exclude(cfg, o)
        \o (IF mid \in DOMAIN cfg.machines THEN cfg.machines[mid].exclude ELSE <<>>)

\* step 4 ending at the first invalid glob pattern
RECURSIVE expand_globs_stop_at_invalid(_, _)
expand_globs_stop_at_invalid(includes, excludes) ==
    IF includes = <<>> THEN <<>>
    ELSE LET paths == glob(expand_tilde(Head(includes)))
         IN  IF paths.ok
             THEN SelectSeq(paths.paths, LAMBDA path : ~matches_any_pattern(path, excludes))
                      \o expand_globs_stop_at_invalid(Tail(includes), excludes)
             ELSE <<>>

\* step 4: every include pattern is expanded and globbed, an invalid one is
\* skipped, and the paths no exclude pattern matches are pushed to files
RECURSIVE expand_globs(_, _)
expand_globs(includes, excludes) ==
    IF includes = <<>> THEN <<>>
    ELSE LET paths == glob(expand_tilde(Head(includes)))
         IN  (IF paths.ok
              THEN SelectSeq(paths.paths, LAMBDA path : ~matches_any_pattern(path, excludes))
              ELSE <<>>)
                 \o expand_globs(Tail(includes), excludes)

\* files.sort()
RECURSIVE sort(_)
sort(q) ==
    IF q = <<>> THEN <<>>
    ELSE LET rest == sort(Tail(q))
             before == SelectSeq(rest, LAMBDA b : path_less(b, Head(q)))
             after == SelectSeq(rest, LAMBDA b : ~path_less(b, Head(q)))
         IN  before \o <<Head(q)>> \o after

\* files.dedup(): of consecutive equal paths the first stays
RECURSIVE dedup(_)
dedup(q) ==
    IF Len(q) < 2 THEN q
    ELSE IF q[1] = q[2] THEN dedup(Tail(q))
    ELSE <<q[1]>> \o dedup(Tail(q))

resolve_fileset(cfg, mid, o) ==
    [ok |-> TRUE,
     val |-> dedup(sort(expand_globs(include_patterns(cfg, mid, o),
                                     exclude_patterns(cfg, mid, o))))]

\* a command resolves the fileset of an app
Resolve ==
    /\ fileset_op = "idle"
    /\ \E cfg \in AppConfigs, mid \in MachineIdValues, o \in OsValues :
          /\ app_config' = cfg
          /\ machine_id' = mid
          /\ os' = o
          /\ files' = resolve_fileset(cfg, mid, o)
    /\ fileset_op' = "resolve"
    /\ UNCHANGED <<lockvars, initvars, mergevars, codecvars, renamevars>>

\* the call returns
FilesetReturn ==
    /\ fileset_op # "idle"
    /\ fileset_op' = "idle"
    /\ app_config' = EmptyConfig
    /\ machine_id' = "m1"
    /\ os' = "macos"
    /\ files' = [ok |-> TRUE, val |-> <<>>]
    /\ UNCHANGED <<lockvars, initvars, mergevars, codecvars, renamevars>>

FilesetNext == Resolve \/ FilesetReturn

FilesetSpecInit == LockInit /\ MergeIdle /\ CodecInit /\ FilesetIdle /\ RenameIdle

FilesetSpec == FilesetSpecInit /\ [][FilesetNext]_vars

(***************************************************************************)
(* rename-machine (src/cli/rename_machine.rs)                              *)
(***************************************************************************)
BACKSLASH == 92

\* the machine ids that are registered or stand in a local config: "a", "b", "c"
MachineNames == {<<97>>, <<98>>, <<99>>}

\* the ids given on the command line: the names, "", "a/b" and "a\"
MachineIdArgs == MachineNames \cup {<<>>, <<97, SLASH, 98>>, <<97, BACKSLASH>>}

\* the command is called with old_id and new_id
RenameStart ==
    /\ rename_pc = "idle"
    /\ \E o, n \in MachineIdArgs : old_id' = o /\ new_id' = n
    /\ rename_pc' = "validate"
    /\ UNCHANGED <<config_machine_id, registry, remote_registry, rename_result>>
    /\ UNCHANGED <<lockvars, initvars, mergevars, codecvars, filesetvars>>

\* the validation of new_id before anything is touched
RenameValidate ==
    /\ rename_pc = "validate"
    /\ IF \/ new_id = <<>>
          \/ str_contains(new_id, <<SLASH>>) \/ str_contains(new_id, <<BACKSLASH>>)
          \/ new_id = old_id
       THEN rename_pc' = "done" /\ rename_result' = "invalid_new_id"
       ELSE rename_pc' = "setup" /\ UNCHANGED rename_result
    /\ UNCHANGED <<old_id, new_id, config_machine_id, registry, remote_registry>>
    /\ UNCHANGED <<lockvars, initvars, mergevars, codecvars, filesetvars>>

\* LocalConfig::load, EphemeralRepoGuard::new, MachineRegistry::load and
\* SyncRules::load: the checkout holds the registry of the remote, or one of
\* them fails
RenameSetup ==
    /\ rename_pc = "setup"
    /\ \/ /\ registry' = remote_registry
          /\ rename_pc' = "check"
          /\ UNCHANGED rename_result
       \/ /\ rename_pc' = "done"
          /\ rename_result' = "setup_err"
          /\ UNCHANGED registry
    /\ UNCHANGED <<old_id, new_id, config_machine_id, remote_registry>>
    /\ UNCHANGED <<lockvars, initvars, mergevars, codecvars, filesetvars>>

\* old_id must be registered and new_id must not
RenameCheck ==
    /\ rename_pc = "check"
    /\ IF old_id \notin registry
       THEN rename_pc' = "done" /\ rename_result' = "unknown_old_id"
       ELSE IF new_id \in registry
       THEN rename_pc' = "done" /\ rename_result' = "new_id_taken"
       ELSE rename_pc' = "confirm" /\ UNCHANGED rename_result
    /\ UNCHANGED <<old_id, new_id, config_machine_id, registry, remote_registry>>
    /\ UNCHANGED <<lockvars, initvars, mergevars, codecvars, filesetvars>>

\* confirm_operation: the user agrees, or declines and the command returns
\* Ok, or reading the answer fails
RenameConfirm ==
    /\ rename_pc = "confirm"
    /\ \/ rename_pc' = "persist" /\ UNCHANGED rename_result
       \/ rename_pc' = "done" /\ rename_result' = "cancelled"
       \/ rename_pc' = "done" /\ rename_result' = "io_err"
    /\ UNCHANGED <<old_id, new_id, config_machine_id, registry, remote_registry>>
    /\ UNCHANGED <<lockvars, initvars, mergevars, codecvars, filesetvars>>

\* the renaming in the checkout with the local config written at once
RenamePersist_config_first ==
    /\ rename_pc = "persist"
    /\ registry' = (registry \ {old_id}) \cup {new_id}
    /\ config_machine_id' = IF old_id = config_machine_id THEN new_id
                            ELSE config_machine_id
    /\ rename_pc' = "push"
    /\ UNCHANGED <<old_id, new_id, remote_registry, rename_result>>
    /\ UNCHANGED <<lockvars, initvars, mergevars, codecvars, filesetvars>>

\* the directories, the overrides in the rules and the registry entry are
\* renamed in the checkout and saved, or a file operation fails
RenamePersist ==
    /\ rename_pc = "persist"
    /\ \/ /\ registry' = (registry \ {old_id}) \cup {new_id}
          /\ rename_pc' = "push"
          /\ UNCHANGED rename_result
       \/ /\ rename_pc' = "done"
          /\ rename_result' = "io_err"
          /\ UNCHANGED registry
    /\ UNCHANGED <<old_id, new_id, config_machine_id, remote_registry>>
    /\ UNCHANGED <<lockvars, initvars, mergevars, codecvars, filesetvars>>

\* commit_and_push(...)?: the remote takes the checkout's registry, or the
\* push fails and the command returns the error
RenamePush ==
    /\ rename_pc = "push"
    /\ \/ /\ remote_registry' = registry
          /\ rename_pc' = "update_config"
          /\ UNCHANGED rename_result
       \/ /\ rename_pc' = "done"
          /\ rename_result' = "push_err"
          /\ UNCHANGED remote_registry
    /\ UNCHANGED <<old_id, new_id, config_machine_id, registry>>
    /\ UNCHANGED <<lockvars, initvars, mergevars, codecvars, filesetvars>>

\* if old_id == config.machine_id: the local config gets new_id and is
\* saved, or config.save() fails; then Ok
RenameUpdateConfig ==
    /\ rename_pc = "update_config"
    /\ IF old_id = config_machine_id
       THEN \/ config_machine_id' = new_id /\ rename_result' = "ok"
            \/ UNCHANGED config_machine_id /\ rename_result' = "io_err"
       ELSE UNCHANGED config_machine_id /\ rename_result' = "ok"
    /\ rename_pc' = "done"
    /\ UNCHANGED <<old_id, new_id, registry, remote_registry>>
    /\ UNCHANGED <<lockvars, initvars, mergevars, codecvars, filesetvars>>

\* the command has returned; its checkout is gone with the guard
RenameReturn ==
    /\ rename_pc = "done"
    /\ rename_pc' = "idle"
    /\ old_id' = <<>>
    /\ new_id' = <<>>
    /\ registry' = {}
    /\ rename_result' = "none"
    /\ UNCHANGED <<config_machine_id, remote_registry>>
    /\ UNCHANGED <<lockvars, initvars, mergevars, codecvars, filesetvars>>

RenameNext ==
    \/ RenameStart
    \/ RenameValidate
    \/ RenameSetup
    \/ RenameCheck
    \/ RenameConfirm
    \/ RenamePersist
    \/ RenamePush
    \/ RenameUpdateConfig
    \/ RenameReturn

\* a machine with some id in its local config and some registry on the remote
RenameInit ==
    /\ rename_pc = "idle"
    /\ old_id = <<>>
    /\ new_id = <<>>
    /\ config_machine_id \in MachineNames
    /\ registry = {}
    /\ remote_registry \in SUBSET MachineNames
    /\ rename_result = "none"

RenameSpecInit == LockInit /\ MergeIdle /\ CodecInit /\ FilesetIdle /\ RenameInit

RenameSpec == RenameSpecInit /\ [][RenameNext]_vars

(***************************************************************************)
(* Working-copy lock: claims                                               *)
(***************************************************************************)
StaleLock == lock.present /\ lock.age > LOCK_STALE_SECS

\* C1: at most one process is in the Held state (it has created the lock
\* file and has not yet run release_lock) at any time.
MutualExclusion == Cardinality({p \in Procs : Held(p)}) <= 1

\* C9, as claimed: an acquire() that found the lock file stale and removed it
\* becomes Held by its retry; it neither goes back to waiting nor ends in the
\* timeout error.
StaleAcquireBecomesHeld ==
    [][\A p \in Procs :
          (pc[p] = "retry" /\ pc'[p] # "retry") => pc'[p] \in {"setup", "crashed"}]_vars

\* C9, amended: a try_acquire_lock that finds the lock file older than the
\* threshold goes on to remove it instead of giving up, the removal leaves no
\* lock file, the retry becomes Held when no other process has created a new
\* lock file in between, and the timeout error is never returned from a
\* staleness check that found the file stale; so a stale lock file does not
\* stay in place once a running process tries to acquire.
StaleLockReclaimed ==
    /\ [][\A p \in Procs :
            /\ (pc[p] = "stale_check" /\ StaleLock /\ pc'[p] \notin {"stale_check", "crashed"})
                   => pc'[p] = "remove_stale"
            /\ (pc[p] = "remove_stale" /\ pc'[p] = "retry") => ~lock'.present
            /\ (pc[p] = "retry" /\ ~lock.present /\ pc'[p] \notin {"retry", "crashed"})
                   => (pc'[p] = "setup" /\ lock' = NewLock(p))
            /\ (pc[p] = "stale_check" /\ pc'[p] = "done")
                   => (outcome'[p] = "timeout" /\ ~StaleLock)]_vars
    /\ \A p \in Procs :
          (pc[p] \in {"try", "stale_check"} /\ StaleLock)
              ~> (~StaleLock \/ pc[p] = "crashed")

\* C9 witness: a process has just removed a stale lock file that a crashed
\* process left behind
StaleLockRemovedAfterCrash ==
    \E p, q \in Procs :
        p # q /\ pc[p] = "retry" /\ ~lock.present /\ pc[q] = "crashed"

GuardOrder ==
    {<<"setup", "held">>, <<"setup", "release">>, <<"held", "cleanup">>,
     <<"cleanup", "release">>, <<"release", "done">>}

CheckoutOnlyUnderLock ==
    [][(repo_exists' # repo_exists \/ (repo_behind /\ ~repo_behind'))
          => \E p \in Procs : Held(p) /\ pc'[p] # pc[p]]_vars

\* C13: when a process goes from setup into its command body, the checkout
\* holds every commit of the remote.
RefreshedBeforeActing ==
    [][\A p \in Procs : (pc[p] = "setup" /\ pc'[p] = "held") => ~repo_behind']_vars

\* C14: a try that fails on a lock file that is there and not stale, once
\* LOCK_TIMEOUT_SECS have passed since acquire_lock began, ends the command
\* with the timeout error; the timeout error comes only out of the acquire
\* loop, after LOCK_TIMEOUT_SECS, so the process was never Held; and the step
\* that returns it changes neither the lock file nor the checkout.
AcquireTimeout ==
    [][\A p \in Procs :
          /\ (pc[p] = "stale_check" /\ lock.present /\ ~is_stale_lock(lock)
              /\ waited[p] >= LOCK_TIMEOUT_SECS /\ pc'[p] \notin {"stale_check", "crashed"})
                => (pc'[p] = "done" /\ outcome'[p] = "timeout")
          /\ (outcome'[p] = "timeout" /\ outcome[p] # "timeout")
                => /\ pc[p] \in {"stale_check", "retry"} /\ pc'[p] = "done"
                   /\ waited[p] >= LOCK_TIMEOUT_SECS
                   /\ lock' = lock
                   /\ repo_exists' = repo_exists /\ repo_behind' = repo_behind]_vars

\* C14 witness: a command has ended with the timeout error while another
\* process is Held and its lock file, not stale, is in place
TimedOutBehindHolder ==
    \E p, q \in Procs :
        /\ pc[p] = "done" /\ outcome[p] = "timeout"
        /\ Held(q) /\ lock.present /\ lock.pid = q /\ ~is_stale_lock(lock)

\* C32: a command whose pull of the existing checkout failed, the checkout
\* staying behind the remote, ends with the error and does not go on into
\* its command body.
FailedPullEndsCommand ==
    [][\A p \in Procs :
          (pc[p] = "setup" /\ pc'[p] \notin {"setup", "crashed"}
              /\ repo_exists /\ repo_behind /\ repo_behind')
            => (pc'[p] = "release" /\ outcome'[p] = "setup_err")]_vars

\* C33: release_lock leaves the result of the command as it was, whether its
\* remove_file succeeded or failed.
ReleaseFailureOnlyLogged ==
    [][\A p \in Procs :
          (pc[p] = "release" /\ pc'[p] = "done") => outcome'[p] = outcome[p]]_vars

\* C33 witness: a command has ended with success although the remove_file of
\* its release_lock failed
SucceededDespiteFailedRelease ==
    \E p \in Procs : pc[p] = "done" /\ release_failed[p] /\ outcome[p] = "ok"

\* C34: the remove_file of the stale-lock path removes only a lock file that
\* is stale, never one created after the staleness check.
ReclaimRemovesOnlyStale ==
    [][\A p \in Procs :
          (pc[p] = "remove_stale" /\ pc'[p] = "retry" /\ lock.present)
            => is_stale_lock(lock)]_vars

\* C35: release_lock removes a lock file only if the releasing process
\* created it.
ReleasesOnlyOwnLock ==
    [][\A p \in Procs :
          (pc[p] = "release" /\ pc'[p] = "done" /\ lock.present) => lock.pid = p]_vars

\* C36: acquire_lock never removes the lock file of a command that is still
\* running.
LiveOwnerKeepsLock ==
    [][\A p \in Procs :
          (pc[p] = "remove_stale" /\ pc'[p] = "retry" /\ lock.present)
            => ~Held(lock.pid)]_vars


(***************************************************************************)
(* Consensus merger: claims                                                *)
(***************************************************************************)
Keys == DOMAIN all_versions

AllSameContent == \A k, m \in Keys : all_versions[k].content = all_versions[m].content

MaxEffective ==
    CHOOSE t \in {effective_ts(all_versions[k]) : k \in Keys} :
        \A k \in Keys : effective_ts(all_versions[k]) <= t

\* the keys of the entries at the maximum effective timestamp
Newest == {k \in Keys : effective_ts(all_versions[k]) = MaxEffective}

\* two or more newest entries, not all with the same content
DifferingTie ==
    /\ Cardinality(Newest) >= 2
    /\ \E k, m \in Newest : all_versions[k].content # all_versions[m].content

\* what a machine with id m gets when its map iterates in the order o
MergeAs(m, o) == intelligent_merge(iter(all_versions, o), m)

\* C2: for a non-empty map and the current machine id, every iteration order
\* of the map gives the content the call returned.
MergeDeterministic ==
    (merged.called /\ Keys # {}) =>
        \A o \in IterationOrders(Keys) : MergeAs(current_machine_id, o) = merged

\* C2 witness: a call returned on a map whose newest entries differ and do
\* not include the current machine, so the content was picked by the sort
LexTiebreakTaken ==
    merged.called /\ Keys # {} /\ DifferingTie /\ current_machine_id \notin Newest

\* C3, as claimed: every machine, with its own id as current_machine_id and
\* its own iteration order, gets the content this machine got.
CrossMachineConvergence ==
    (merged.called /\ Keys # {}) =>
        \A m \in MachineIds : \A o \in IterationOrders(Keys) :
            MergeAs(m, o) = merged

\* C3, amended: two machines get the same content from the same snapshot
\* unless the own entry of one of them is among two or more newest entries
\* whose contents are not all equal.
ConvergenceOutsideTies ==
    (merged.called /\ Keys # {} /\ ~(DifferingTie /\ current_machine_id \in Newest)) =>
        \A m \in MachineIds :
            ~(DifferingTie /\ m \in Newest) =>
                \A o \in IterationOrders(Keys) : MergeAs(m, o) = merged

\* C3 witness: the snapshot holds differing contents and the entries of two
\* machines, neither of them in a differing tie
TwoMachinesOneSnapshot ==
    /\ merged.called /\ merged.ok
    /\ ~AllSameContent
    /\ current_machine_id \in Keys
    /\ ~(DifferingTie /\ current_machine_id \in Newest)
    /\ \E m \in Keys \ {current_machine_id} : ~(DifferingTie /\ m \in Newest)

\* C5: when the contents are not all identical and exactly one entry has the
\* maximum effective timestamp, the call returns that entry's content.
LastWriteWins ==
    (merged.called /\ Keys # {} /\ ~AllSameContent /\ Cardinality(Newest) = 1) =>
        \A k \in Newest : merged = Ok(all_versions[k].content)

\* C5 witness: one newest entry against two older entries that agree on
\* another content, one of them the current machine's
NewestBeatsMajority ==
    /\ merged.called
    /\ Cardinality(Keys) = 3
    /\ Cardinality(Newest) = 1
    /\ current_machine_id \in Keys \ Newest
    /\ \A k, m \in Keys \ Newest : all_versions[k].content = all_versions[m].content
    /\ \A k \in Newest : all_versions[k].content # all_versions[current_machine_id].content

\* the smallest string of the non-empty set S in str's order
LexSmallest(S) == CHOOSE c \in S : \A d \in S : c = d \/ str_less(c, d)

NewestContents == {all_versions[k].content : k \in Newest}

\* the version map with every committed_at = None replaced by Some(0)
NoneAsZero ==
    [k \in Keys |-> IF all_versions[k].committed_at = <<>>
                    THEN [all_versions[k] EXCEPT !.committed_at = <<0>>]
                    ELSE all_versions[k]]

NoneKeys == {k \in Keys : all_versions[k].committed_at = <<>>}

\* C15: when two or more entries with differing contents share the maximum
\* effective timestamp and the current machine's entry is one of them, the
\* call returns the current machine's content.
SelfTiebreak ==
    (merged.called /\ DifferingTie /\ current_machine_id \in Newest) =>
        merged = Ok(all_versions[current_machine_id].content)

\* C15 witness: the current machine is in a differing tie and its content is
\* not the smallest of the tie
SelfTiebreakTaken ==
    /\ merged.called /\ DifferingTie /\ current_machine_id \in Newest
    /\ all_versions[current_machine_id].content # LexSmallest(NewestContents)

\* C16: when two or more entries share the maximum effective timestamp and
\* the current machine's entry is not among them, the call returns the
\* lexicographically smallest content among those entries.
LexTiebreak ==
    (merged.called /\ Cardinality(Newest) >= 2 /\ current_machine_id \notin Newest) =>
        merged = Ok(LexSmallest(NewestContents))

\* C16 witness: a differing tie without the current machine, where the entry
\* with the smallest machine id does not hold the smallest content
LexSmallestNotFirst ==
    /\ merged.called /\ DifferingTie /\ current_machine_id \notin Newest
    /\ \E k \in Newest :
          /\ \A m \in Newest : k <= m
          /\ all_versions[k].content # LexSmallest(NewestContents)

\* C17: a call on a non-empty map never fails over a None; it returns what it
\* returns on the map with every None replaced by Some(0), so None entries tie
\* with each other and with timestamp 0 under the usual rules; and when the
\* contents differ and some entry has a timestamp of 1 or more, no None entry
\* is among the newest and the content returned is that of a newest entry,
\* also when the current machine's entry is a None one.
NoneCountsAsZero ==
    (merged.called /\ Keys # {}) =>
        /\ merged.ok
        /\ \A o \in IterationOrders(Keys) :
              intelligent_merge(iter(NoneAsZero, o), current_machine_id) = merged
        /\ (~AllSameContent /\ \E k \in Keys : all_versions[k].committed_at \notin {<<>>, <<0>>})
              => /\ NoneKeys \cap Newest = {}
                 /\ merged.val \in NewestContents

\* C17 witness: the current machine's entry has no commit time, another entry
\* has timestamp 1 and another content, and that content was returned
NoneLosesToTimestamp ==
    /\ merged.called
    /\ current_machine_id \in NoneKeys
    /\ \E k \in Keys : all_versions[k].committed_at = <<1>>
    /\ merged.val # all_versions[current_machine_id].content

\* C18: if every entry has the same content c, the call returns c, whatever
\* the timestamps and the current machine id.
AgreementLaw ==
    (merged.called /\ Keys # {} /\ AllSameContent) =>
        \A k \in Keys : merged = Ok(all_versions[k].content)

\* C18 witness: three entries with one content and three different commit
\* times, None among them
AgreementAcrossTimestamps ==
    /\ merged.called /\ AllSameContent
    /\ Cardinality(Keys) >= 3
    /\ Cardinality({all_versions[k].committed_at : k \in Keys}) >= 3

\* C19: on a map with exactly one entry the call returns that entry's content,
\* whatever its timestamp and the current machine id.
SingletonLaw ==
    (merged.called /\ Cardinality(Keys) = 1) =>
        \A k \in Keys : merged = Ok(all_versions[k].content)

\* C19 witness: a single entry without commit time, of another machine than
\* the current one
SingletonOfAnotherMachine ==
    /\ merged.called /\ Cardinality(Keys) = 1
    /\ current_machine_id \notin Keys
    /\ NoneKeys = Keys

\* C20: if the entries at the maximum effective timestamp all have the same
\* content c while older entries differ, the call returns c for every current
\* machine id.
WinningTierAgreement ==
    (merged.called /\ ~AllSameContent /\ Cardinality(NewestContents) = 1) =>
        \A k \in Newest : merged = Ok(all_versions[k].content)

\* C20 witness: two newest entries agree, and the current machine holds an
\* older entry with another content
OlderCurrentMachineLoses ==
    /\ merged.called /\ ~AllSameContent
    /\ Cardinality(Newest) = 2 /\ Cardinality(NewestContents) = 1
    /\ current_machine_id \in Keys \ Newest
    /\ all_versions[current_machine_id].content \notin NewestContents


\* C21: the call fails if and only if the version map is empty, and then
\* with the configuration error; on a non-empty map it returns the content of
\* one of the entries.
FailsOnlyOnEmptyMap ==
    merged.called =>
        /\ ~merged.ok <=> Keys = {}
        /\ Keys = {} => merged = Err
        /\ Keys # {} => \E k \in Keys : merged = Ok(all_versions[k].content)

\* C21 witness: the call was made on the empty map and failed
EmptyMapRejected == merged.called /\ Keys = {} /\ ~merged.ok

\* C39: for a non-empty map the call returns the content of an entry at the
\* maximum effective timestamp, never a content only older entries hold and
\* never a string that is not in the map.
ResultIsNewestReplica ==
    (merged.called /\ Keys # {}) =>
        /\ merged.ok
        /\ \E k \in Newest : merged.val = all_versions[k].content

\* C39 witness: the newest entries differ, an older entry holds a content
\* that no newest entry holds, and a newest content was returned
OlderContentNotReturned ==
    /\ merged.called /\ merged.ok
    /\ DifferingTie
    /\ \E k \in Keys \ Newest : all_versions[k].content \notin NewestContents
    /\ merged.val \in NewestContents

(***************************************************************************)
(* Section codec: claims                                                   *)
(***************************************************************************)
\* the positions of the lines of ls that are start tags, stop tags
StartIdx(ls) == {i \in 1..Len(ls) : is_start_tag(ls[i])}

StopIdx(ls) == {i \in 1..Len(ls) : is_stop_tag(ls[i])}

\* the n-th smallest element of the set of numbers S
NthOf(S, n) == CHOOSE i \in S : Cardinality({j \in S : j < i}) = n - 1

\* well-formed: the tag lines alternate start, stop, start, stop, ...
WellFormed(content) ==
    LET ls == lines(content)
        tags == StartIdx(ls) \cup StopIdx(ls)
    IN  /\ Cardinality(StartIdx(ls)) = Cardinality(StopIdx(ls))
        /\ \A n \in 1..Cardinality(tags) :
              IF n % 2 = 1 THEN NthOf(tags, n) \in StartIdx(ls)
                           ELSE NthOf(tags, n) \in StopIdx(ls)

\* some start tag has no stop tag after it
Unclosed(content) ==
    LET ls == lines(content)
    IN  \E i \in StartIdx(ls) : \A j \in StopIdx(ls) : j < i

NumSections(content) == Cardinality(StartIdx(lines(content)))

\* the n-th exclude section of a well-formed content, as it stands in the
\* file: its start tag line, its body lines and its stop tag line
VerbatimSection(content, n) ==
    LET ls == lines(content)
    IN  join(SubSeq(ls, NthOf(StartIdx(ls), n), NthOf(StopIdx(ls), n)), TRUE)

contains(hay, needle) ==
    \E i \in 0..(Len(hay) - Len(needle)) : SubSeq(hay, i + 1, i + Len(needle)) = needle

EndsWithNewline(content) == content # <<>> /\ content[Len(content)] = NL

\* the tag token stands in the line after whitespace only
TokenFirst(line, token) ==
    \E n \in 0..Len(line) :
        /\ \A k \in 1..n : line[k] = SP
        /\ starts_with(SubSeq(line, n + 1, Len(line)), token)

\* the positions of the lines of ls outside the exclude sections of a
\* well-formed content, tag lines counted in: as many start tags as stop tags
\* stand before them
OutsideOrTag(ls) ==
    {i \in 1..Len(ls) :
        \/ i \in StartIdx(ls) \cup StopIdx(ls)
        \/ Cardinality({j \in StartIdx(ls) : j < i}) = Cardinality({j \in StopIdx(ls) : j < i})}

\* the lines of ls at the positions S, in their order, each ended by "\n"
LinesAt(ls, S) ==
    join([n \in 1..Cardinality(S) |-> ls[NthOf(S, n)]], TRUE)

\* C22: extract_syncable_content returns None exactly when the content has
\* no tag line at all, neither a start tag nor a stop tag.
NoneIffNoTagLine ==
    codec_op = "extract" =>
        ((codec_result.ok /\ ~codec_result.some)
            <=> StartIdx(lines(local_content)) \cup StopIdx(lines(local_content)) = {})

\* C23: for a well-formed content with exclude tags the call returns Some of
\* the lines outside the exclude sections and the tag lines, in their order,
\* each ended by "\n"; no body line is in it.
ExtractKeepsOutsideAndTags ==
    (codec_op = "extract" /\ WellFormed(local_content) /\ NumSections(local_content) >= 1) =>
        LET ls == lines(local_content)
        IN  /\ codec_result.ok /\ codec_result.some
            /\ codec_result.val = LinesAt(ls, OutsideOrTag(ls))

\* C23 witness: a file with text, then a section with a body, then text
BodyRemovedTagsKept ==
    /\ codec_op = "extract" /\ WellFormed(local_content)
    /\ LET ls == lines(local_content)
       IN  /\ Len(ls) = 5
           /\ StartIdx(ls) = {2} /\ StopIdx(ls) = {4}
    /\ codec_result.some
    /\ Len(lines(codec_result.val)) = 4

OutsideIdx(ls) ==
    {i \in 1..Len(ls) :
        /\ i \notin StartIdx(ls) \cup StopIdx(ls)
        /\ \A j \in StartIdx(ls) : j < i => \E k \in StopIdx(ls) : j < k /\ k < i}

\* the lines of ls at the positions S, in their order
PickLines(ls, S) == [n \in 1..Cardinality(S) |-> ls[NthOf(S, n)]]

\* C29: in the result of merge_synced_content the lines outside exclude
\* sections are the incoming lines outside the incoming content's tagged
\* spans, in the same order.
OutsideIsIncoming ==
    (codec_op = "merge" /\ codec_result.ok /\ WellFormed(synced_content)) =>
        LET out == lines(codec_result.val)
            inc == lines(synced_content)
        IN  PickLines(out, OutsideIdx(out)) = PickLines(inc, OutsideIdx(inc))

\* C30: when the N-th start tag of the incoming content has no local section
\* at position N, the result holds the incoming section in its place: the
\* result for the incoming lines up to the stop tag of that section is the
\* result for the lines before its start tag followed by the start tag line,
\* the body lines and the stop tag line.
FallbackToIncomingSection ==
    (codec_op = "merge" /\ codec_result.ok /\ WellFormed(synced_content)) =>
        LET ls == lines(synced_content)
            secs == extract_exclude_sections(local_content).sections
        IN  \A n \in (Len(secs) + 1)..Cardinality(StartIdx(ls)) :
              LET q == NthOf(StartIdx(ls), n)
                  r == NthOf(StopIdx(ls), n)
                  before == merge_synced_content(local_content,
                                join(SubSeq(ls, 1, q - 1), TRUE)).val
                  upto == merge_synced_content(local_content,
                                join(SubSeq(ls, 1, r), TRUE)).val
              IN  upto = before \o join(SubSeq(ls, q, r), TRUE)

\* C4: every exclude section of a well-formed local content stands verbatim
\* in the result of merge_synced_content, whatever the incoming content is.
ExcludeSectionsPreserved ==
    (codec_op = "merge" /\ WellFormed(local_content)) =>
        /\ codec_result.ok
        /\ \A n \in 1..NumSections(local_content) :
              contains(codec_result.val, VerbatimSection(local_content, n))

\* C6, as claimed: for a well-formed local content with exclude tags,
\* merge_synced_content(local, extract_syncable_content(local)) is local.
RoundTripIdentity ==
    (codec_op = "roundtrip" /\ WellFormed(local_content)) =>
        (codec_result.ok /\ codec_result.val = local_content)

\* C6, amended: the round trip gives back a well-formed local content with
\* exclude tags whose last line ends with "\n".
RoundTripNewlineTerminated ==
    (codec_op = "roundtrip" /\ WellFormed(local_content)
     /\ EndsWithNewline(local_content)) =>
        (codec_result.ok /\ codec_result.val = local_content)

\* C6 witness: a round trip of a file with two sections, one with a body and
\* one indented, and text outside them
RoundTripOfTwoSections ==
    /\ codec_op = "roundtrip"
    /\ WellFormed(local_content)
    /\ EndsWithNewline(local_content)
    /\ NumSections(local_content) = 2
    /\ VerbatimSection(local_content, 1) # VerbatimSection(local_content, 2)
    /\ codec_result.val = local_content

\* C7: the N-th start tag of the incoming content is replaced by the N-th
\* exclude section of the local content whenever there is one: what is written
\* for the incoming lines up to the next tag line after that start tag is what
\* was written before the start tag followed by the section, so the incoming
\* body adds nothing; the result begins with it; and the section is the local
\* file's text from its N-th start tag line to its N-th stop tag line.
PositionalSubstitution ==
    (codec_op = "merge" /\ codec_result.ok) =>
        LET ls == lines(synced_content)
            secs == extract_exclude_sections(local_content).sections
            tags == StartIdx(ls) \cup StopIdx(ls)
        IN  \A n \in 1..Min(Cardinality(StartIdx(ls)), Len(secs)) :
              LET q == NthOf(StartIdx(ls), n)
                  later == {r \in tags : r > q} \cup {Len(ls) + 1}
                  r == CHOOSE k \in later : \A m \in later : k <= m
                  before == merge_synced_content(local_content,
                                join(SubSeq(ls, 1, q - 1), TRUE)).val
                  upto == merge_synced_content(local_content,
                                join(SubSeq(ls, 1, r - 1), TRUE)).val
              IN  /\ upto = before \o secs[n]
                  /\ starts_with(codec_result.val, before \o secs[n])
                  /\ WellFormed(local_content)
                        => secs[n] = VerbatimSection(local_content, n)

\* C7 witness: the local file has two different sections and the incoming
\* content two start tags, the first with a body of its own
SecondSectionSubstituted ==
    /\ codec_op = "merge" /\ codec_result.ok
    /\ WellFormed(local_content)
    /\ NumSections(local_content) = 2
    /\ VerbatimSection(local_content, 1) # VerbatimSection(local_content, 2)
    /\ Cardinality(StartIdx(lines(synced_content))) = 2
    /\ contains(codec_result.val, VerbatimSection(local_content, 2))

\* C8: a content with a start tag that no stop tag follows makes
\* extract_syncable_content fail, and as the local content it makes the
\* section extraction of merge_synced_content fail; no text is returned.
UnclosedTagIsError ==
    (codec_op \in {"extract", "merge"} /\ Unclosed(local_content)) =>
        /\ ~codec_result.ok
        /\ codec_result.val = <<>>
        /\ ~extract_exclude_sections(local_content).ok

\* C8 witness: extract_syncable_content was called on text, then a start
\* tag, then a body that no stop tag closes
UnclosedAfterText ==
    /\ codec_op = "extract"
    /\ Unclosed(local_content)
    /\ LET ls == lines(local_content)
       IN  Len(ls) >= 3 /\ ~is_start_tag(ls[1]) /\ ~is_start_tag(ls[Len(ls)])
    /\ ~codec_result.ok

\* C31: merge_synced_content returns an error when the incoming content
\* holds a start tag that no stop tag follows.
UnclosedIncomingIsError ==
    (codec_op = "merge" /\ Unclosed(synced_content)) => ~codec_result.ok

\* C37: for well-formed local and incoming contents the result of
\* merge_synced_content is well-formed, and neither extract_syncable_content
\* nor a later merge_synced_content fails on it.
MergeKeepsWellFormed ==
    (codec_op = "merge" /\ WellFormed(local_content) /\ WellFormed(synced_content)) =>
        /\ codec_result.ok
        /\ WellFormed(codec_result.val)
        /\ extract_syncable_content(codec_result.val).ok
        /\ merge_synced_content(codec_result.val, synced_content).ok

\* C38: for well-formed local and incoming contents, merging the incoming
\* content into the result of the merge gives the same result again.
SecondMergeChangesNothing ==
    (codec_op = "merge" /\ WellFormed(local_content) /\ WellFormed(synced_content)) =>
        merge_synced_content(codec_result.val, synced_content) = codec_result

(***************************************************************************)
(* Fileset resolver: claims                                                *)
(***************************************************************************)
PathsOf(q) == {q[i] : i \in 1..Len(q)}

Resolved == fileset_op = "resolve"

\* the include patterns of the three tiers for the call's machine and OS
TierIncludes ==
    PathsOf(app_config.include)
    \cup (IF os = "macos" THEN PathsOf(app_config.include_macos) ELSE {})
    \cup (IF os = "linux" THEN PathsOf(app_config.include_linux) ELSE {})
    \cup (IF os = "windows" THEN PathsOf(app_config.include_windows) ELSE {})
    \cup (IF machine_id \in DOMAIN app_config.machines
          THEN PathsOf(app_config.machines[machine_id].include) ELSE {})

\* the exclude patterns of the three tiers for the call's machine and OS
TierExcludes ==
    PathsOf(app_config.exclude)
    \cup (IF os = "macos" THEN PathsOf(app_config.exclude_macos) ELSE {})
    \cup (IF os = "linux" THEN PathsOf(app_config.exclude_linux) ELSE {})
    \cup (IF os = "windows" THEN PathsOf(app_config.exclude_windows) ELSE {})
    \cup (IF machine_id \in DOMAIN app_config.machines
          THEN PathsOf(app_config.machines[machine_id].exclude) ELSE {})

\* the include pattern g, a valid glob after the tilde expansion, matches
\* the existing path component by component
IncludeMatches(g, path) ==
    /\ path \in Disk
    /\ Pattern_new(expand_tilde(g))
    /\ matches_with(expand_tilde(g), path, TRUE)

\* the exclude pattern g matches the path
ExcludeMatches(g, path) == matches_any_pattern(path, <<g>>)

\* C25: the resolved fileset is the sorted, duplicate-free list of the paths
\* that some include pattern of the app, OS or machine tier matches and no
\* exclude pattern of any of the three tiers matches.
TiersAreAdditive ==
    Resolved =>
        /\ files.ok
        /\ PathsOf(files.val) =
              {path \in Disk :
                  /\ \E g \in TierIncludes : IncludeMatches(g, path)
                  /\ ~\E g \in TierExcludes : ExcludeMatches(g, path)}
        /\ \A i, j \in 1..Len(files.val) :
              i < j => path_less(files.val[i], files.val[j])

\* C25 happens: a path that an app-level include and an OS-tier include
\* match is excluded by the machine override alone and is not in the
\* fileset, which holds another path
MachineExcludeBeatsIncludes ==
    /\ Resolved
    /\ machine_id \in DOMAIN app_config.machines
    /\ app_config.exclude = <<>> /\ os_exclude(app_config, os) = <<>>
    /\ files.val # <<>>
    /\ \E path \in Disk :
          /\ \E g \in PathsOf(app_config.include) : IncludeMatches(g, path)
          /\ \E g \in PathsOf(os_include(app_config, os)) : IncludeMatches(g, path)
          /\ \E g \in PathsOf(app_config.machines[machine_id].exclude) :
                ExcludeMatches(g, path)
          /\ path \notin PathsOf(files.val)

\* the glob match of the tilde-expanded exclude pattern g against the path
GlobTest(g, path) ==
    Pattern_new(expand_tilde(g)) /\ matches_path(expand_tilde(g), path)

\* the path contains the exclude pattern g as it is written
SubstringTest(g, path) == contains(path, g)

\* C26: a path that an include pattern matches is dropped when for some
\* exclude pattern the glob match against the expanded pattern or the
\* containment of the unexpanded pattern succeeds, and is kept when both
\* fail for every exclude pattern.
EitherTestExcludes ==
    Resolved =>
        \A path \in Disk :
            (\E g \in TierIncludes : IncludeMatches(g, path)) =>
                (path \in PathsOf(files.val) <=>
                    \A g \in TierExcludes :
                        ~GlobTest(g, path) /\ ~SubstringTest(g, path))

\* C26 happens: a path is dropped that no exclude pattern matches as a glob
\* and that contains an exclude pattern, and another path is kept
SubstringAloneExcludes ==
    /\ Resolved
    /\ \E path \in Disk :
          /\ \E g \in TierIncludes : IncludeMatches(g, path)
          /\ \A g \in TierExcludes : ~GlobTest(g, path)
          /\ \E g \in TierExcludes : SubstringTest(g, path)
          /\ path \notin PathsOf(files.val)
    /\ files.val # <<>>

\* C27: for an OS value other than macos, linux and windows the fileset is
\* the one the app-level include and exclude patterns give; no pattern of
\* another tier contributes.
UnknownOsUsesAppOnly ==
    (Resolved /\ os \notin {"macos", "linux", "windows"}) =>
        files.val = dedup(sort(expand_globs(app_config.include, app_config.exclude)))

\* C28: resolve_fileset returns Ok whatever the patterns match; an invalid
\* glob pattern is skipped and the others are expanded as if it were not
\* there; without any include pattern the fileset is empty.
NeverFailsForLackOfMatches ==
    Resolved =>
        LET includes == include_patterns(app_config, machine_id, os)
            valid == SelectSeq(includes, LAMBDA g : Pattern_new(expand_tilde(g)))
        IN  /\ files.ok
            /\ includes = <<>> => files.val = <<>>
            /\ (\A g \in PathsOf(includes) : \A path \in Disk : ~IncludeMatches(g, path))
                  => files.val = <<>>
            /\ \A path \in Disk :
                  ((\E g \in PathsOf(valid) : IncludeMatches(g, path))
                      /\ ~\E g \in TierExcludes : ExcludeMatches(g, path))
                  => path \in PathsOf(files.val)

\* C28 happens: an invalid pattern stands before a valid one in the include
\* list and the paths of the valid one are in the fileset
InvalidGlobSkipped ==
    /\ Resolved
    /\ LET includes == include_patterns(app_config, machine_id, os)
       IN  \E i, j \in 1..Len(includes) :
              /\ i < j
              /\ ~Pattern_new(expand_tilde(includes[i]))
              /\ \E path \in PathsOf(files.val) : IncludeMatches(includes[j], path)

(***************************************************************************)
(* rename-machine: claims                                                  *)
(***************************************************************************)
\* C40: the local config's machine_id changes only in the last step of the
\* command, to new_id, after the registry with new_id in place of old_id
\* has been pushed; a command that ended on a validation, on the user's
\* refusal or on a failed push never got to that step.
LocalConfigUpdatedLast ==
    /\ [][config_machine_id' # config_machine_id
            => /\ rename_pc = "update_config" /\ rename_pc' = "done"
               /\ config_machine_id = old_id
               /\ config_machine_id' = new_id
               /\ new_id \in remote_registry /\ old_id \notin remote_registry
               /\ rename_result' = "ok"]_vars
    /\ [][rename_result' \in {"invalid_new_id", "unknown_old_id", "new_id_taken",
                              "cancelled", "push_err"}
            => (rename_pc # "update_config" /\ config_machine_id' = config_machine_id)]_vars
    /\ [](rename_pc = "update_config" => remote_registry = registry)

\* C40 witness: the command ended with Ok, the remote's registry holds
\* new_id and not old_id, and the local config holds new_id
LocalConfigRenamedAfterPush ==
    /\ rename_pc = "done" /\ rename_result = "ok"
    /\ config_machine_id = new_id
    /\ new_id \in remote_registry /\ old_id \notin remote_registry
====
